---- MODULE Spec2Model ----
(***************************************************************************)
(* Model of the tree layout strategies of                                  *)
(* frontend/src/utils/layoutAlgorithms.ts: ReingoldTilfordLayout,          *)
(* HierarchicalLayout, EnhancedTreeLayout and createLayoutEngine.          *)
(*                                                                         *)
(* Node ids are the naturals 1..n; Unknown is an id no node list holds.    *)
(* A JavaScript object reference is the id of the object, null is NoNode.  *)
(* Coordinates are JavaScript numbers.  The config values are drawn from   *)
(* multiples of 4, so that every halving the code performs (midpoints,     *)
(* -totalWidth / 2, -treeWidth / 2) is exact and the model computes with   *)
(* integers exactly what the code computes with doubles.                   *)
(* A thrown exception is the flag err of the working state and of the      *)
(* result.                                                                 *)
(***************************************************************************)
EXTENDS Integers, Sequences, FiniteSets, TLC

\* ------------------------------------------------------------------ bounds
MaxTreeNodes == 6
MaxGenNodes == 3
MaxGenEdges == 2
MaxReuseNodes == 2
MaxReuseEdges == 1
MaxForestTreeNodes == 3
MaxResources == 3
MaxOwners == 2

\* ------------------------------------------------------------------ values
NoNode == -1
Unknown == 0

Half(a) == a \div 2
Max2(a, b) == IF a >= b THEN a ELSE b

\* indexOf: the first index of v in s, 0 when absent (JavaScript's -1)
IndexOf(s, v) ==
  IF \E i \in 1..Len(s) : s[i] = v
  THEN CHOOSE i \in 1..Len(s) : s[i] = v /\ \A j \in 1..(i - 1) : s[j] # v
  ELSE 0

\* ------------------------------------------------------------------ Map
\* A JavaScript Map: keys in insertion order, and the value of each key.
EmptyMap == [keys |-> << >>, val |-> << >>]

MapHas(m, k) == k \in DOMAIN m.val

MapSet(m, k, v) ==
  [keys |-> IF MapHas(m, k) THEN m.keys ELSE Append(m.keys, k),
   val |-> [x \in (DOMAIN m.val) \cup {k} |-> IF x = k THEN v ELSE m.val[x]]]

\* ------------------------------------------------------------------ config
Directions == {"TB", "LR"}

Configs ==
  [nodeWidth : {4, 8}, nodeHeight : {4}, horizontalSpacing : {0, 4},
   verticalSpacing : {4}, direction : Directions]

\* ====================================================================
\* ReingoldTilfordLayout
\* ====================================================================

RTNode(id) ==
  [id |-> id, children |-> << >>, parent |-> NoNode, x |-> 0, y |-> 0,
   prelim |-> 0, mod |-> 0, thread |-> NoNode, ancestor |-> NoNode,
   change |-> << >>, shift |-> 0, number |-> 0, level |-> 0]

\* nodes.forEach(node => this.nodeMap.set(node.id, rtNode))
RECURSIVE RTCreateNodes(_, _, _)
RTCreateNodes(m, nodes, i) ==
  IF i > Len(nodes) THEN m
  ELSE RTCreateNodes(MapSet(m, nodes[i], RTNode(nodes[i])), nodes, i + 1)

\* edges.forEach: parent.children.push(child); child.parent = parent
RECURSIVE BuildLinks(_, _, _)
BuildLinks(m, edges, i) ==
  IF i > Len(edges) THEN m
  ELSE LET s == edges[i][1]
           t == edges[i][2]
       IN IF MapHas(m, s) /\ MapHas(m, t)
          THEN LET v1 == [m.val EXCEPT ![s].children = Append(@, t)]
                   v2 == [v1 EXCEPT ![t].parent = s]
               IN BuildLinks([m EXCEPT !.val = v2], edges, i + 1)
          ELSE BuildLinks(m, edges, i + 1)

\* Array.from(nodeMap.values()).find(node => node.parent === null), else nodes[0]
FindRoot(m, nodes) ==
  LET roots == {i \in 1..Len(m.keys) : m.val[m.keys[i]].parent = NoNode}
  IN IF roots # {}
     THEN m.keys[CHOOSE i \in roots : \A j \in roots : i <= j]
     ELSE nodes[1]

\* A working state: the node map and whether an exception has been thrown.
\* A recursion deeper than the number of map entries walks a cycle of
\* children and never returns: the call stack overflows (RangeError).
RECURSIVE RTAssignLevels(_, _, _, _)
RECURSIVE RTAssignLevelsEach(_, _, _, _, _)
\* mutant: the children are given the level of their parent
RTAssignLevelsFlat(st, node, level, depth) ==
  IF st.err THEN st
  ELSE IF depth > Len(st.keys) THEN [st EXCEPT !.err = TRUE]
  ELSE RTAssignLevelsEach([st EXCEPT !.val[node].level = level],
                          st.val[node].children, 1, level, depth + 1)

RTAssignLevels(st, node, level, depth) ==
  IF st.err THEN st
  ELSE IF depth > Len(st.keys) THEN [st EXCEPT !.err = TRUE]
  ELSE RTAssignLevelsEach([st EXCEPT !.val[node].level = level],
                          st.val[node].children, 1, level + 1, depth + 1)

RTAssignLevelsEach(st, kids, i, level, depth) ==
  IF i > Len(kids) \/ st.err THEN st
  ELSE RTAssignLevelsEach(RTAssignLevels(st, kids[i], level, depth),
                          kids, i + 1, level, depth)

\* mutant: the node map is not cleared
RTKeepMap(m) == m

RTClear(m) == EmptyMap

RTRooted(m, root) ==
  [st |-> RTAssignLevels([keys |-> m.keys, val |-> m.val, err |-> FALSE], root, 0, 1),
   root |-> root]

RTLinked(m, nodes) == RTRooted(m, FindRoot(m, nodes))

\* mutant: an edge whose source or target is no node throws
RTBuildTreeStrict(nodeMap, nodes, edges) ==
  LET m1 == RTCreateNodes(EmptyMap, nodes, 1)
      b == RTLinked(BuildLinks(m1, edges, 1), nodes)
      bad == \E i \in 1..Len(edges) :
               ~MapHas(m1, edges[i][1]) \/ ~MapHas(m1, edges[i][2])
  IN IF bad THEN [b EXCEPT !.st.err = TRUE] ELSE b

RTBuildTree(nodeMap, nodes, edges) ==
  RTLinked(BuildLinks(RTCreateNodes(RTClear(nodeMap), nodes, 1), edges, 1), nodes)

\* initializeNodes: preorder numbers, ancestor = self.  ctr is the counter
\* `number` of the closure.
RECURSIVE RTTraverse(_, _)
RECURSIVE RTTraverseEach(_, _, _)
RTTraverse(sc, node) ==
  RTTraverseEach([sc EXCEPT !.st.val[node].number = sc.ctr,
                            !.st.val[node].ancestor = node,
                            !.ctr = sc.ctr + 1],
                 sc.st.val[node].children, 1)

RTTraverseEach(sc, kids, i) ==
  IF i > Len(kids) THEN sc
  ELSE RTTraverseEach(RTTraverse(sc, kids[i]), kids, i + 1)

RTInitializeNodes(st, root) == RTTraverse([st |-> st, ctr |-> 0], root).st

\* ------------------------------------------------------------------ helpers
RTLeftSibling(st, node) ==
  LET p == st.val[node].parent
  IN IF p = NoNode THEN NoNode
     ELSE LET siblings == st.val[p].children
              index == IndexOf(siblings, node)
          IN IF index > 1 THEN siblings[index - 1] ELSE NoNode

RTNextLeft(st, node) ==
  LET c == st.val[node].children
  IN IF Len(c) > 0 THEN c[1] ELSE st.val[node].thread

RTNextRight(st, node) ==
  LET c == st.val[node].children
  IN IF Len(c) > 0 THEN c[Len(c)] ELSE st.val[node].thread

RTGetNodeSeparation(cfg) == cfg.nodeWidth + cfg.horizontalSpacing

RECURSIVE RTMaxLevel(_, _, _)
RTMaxLevel(st, i, acc) ==
  IF i > Len(st.keys) THEN acc
  ELSE RTMaxLevel(st, i + 1, Max2(acc, st.val[st.keys[i]].level))

RTGetMaxDepth(st) == RTMaxLevel(st, 1, 0)

\* moveSubtree.  change accumulates quotients shift / subtrees; it is kept
\* as the list of the <<signed shift, subtrees>> terms added to it.
RTMoveSubtree(st, wl, wr, shift) ==
  LET subtrees == st.val[wr].number - st.val[wl].number
      v1 == [st.val EXCEPT ![wr].change = Append(@, <<0 - shift, subtrees>>)]
      v2 == [v1 EXCEPT ![wr].shift = @ + shift]
      v3 == [v2 EXCEPT ![wl].change = Append(@, <<shift, subtrees>>)]
      v4 == [v3 EXCEPT ![wr].prelim = @ + shift]
      v5 == [v4 EXCEPT ![wr].mod = @ + shift]
  IN [st EXCEPT !.val = v5]

\* the for loop of apportion: climb i parents on both sides, summing mods.
\* Reading .mod of a null parent throws a TypeError.
RECURSIVE RTClimb(_, _, _)
RTClimb(st, c, i) ==
  IF i = 0 \/ c.err THEN c
  ELSE LET al == st.val[c.ancestorLeftmost].parent
           an == st.val[c.ancestorNeighbor].parent
       IN IF al = NoNode \/ an = NoNode
          THEN [c EXCEPT !.err = TRUE]
          ELSE RTClimb(st, [ancestorLeftmost |-> al, ancestorNeighbor |-> an,
                            rightModSum |-> c.rightModSum + st.val[al].mod,
                            leftModSum |-> c.leftModSum + st.val[an].mod,
                            err |-> FALSE], i - 1)

\* the body of the while loop after the for loop: c holds the two mod sums
RTApportionMove(st, cfg, node, leftmost, neighbor, c, ancestor) ==
  LET moveDistance ==
        st.val[neighbor].prelim + c.leftModSum + RTGetNodeSeparation(cfg)
          - (st.val[leftmost].prelim + c.rightModSum)
  IN IF moveDistance > 0 /\ ancestor # NoNode
     THEN RTMoveSubtree(st, ancestor, node, moveDistance)
     ELSE st

\* the next leftmost and the next neighbor
RTApportionLeft(st, leftmost) ==
  IF Len(st.val[leftmost].children) = 0
  THEN RTNextLeft(st, leftmost)
  ELSE st.val[leftmost].children[1]

RTApportionRight(st, neighbor) ==
  IF Len(st.val[neighbor].children) = 0
  THEN RTNextRight(st, neighbor)
  ELSE st.val[neighbor].children[Len(st.val[neighbor].children)]

\* the while loop of apportion
RECURSIVE RTApportionLoop(_, _, _, _, _, _, _)
RECURSIVE RTApportionNext(_, _, _, _, _, _, _)
RECURSIVE RTApportionBody(_, _, _, _, _, _, _, _)
RTApportionLoop(st, cfg, node, leftmost, neighbor, compareDepth, maxDepth) ==
  IF st.err \/ leftmost = NoNode \/ neighbor = NoNode \/ compareDepth > maxDepth
  THEN st
  ELSE RTApportionBody(st, cfg, node, leftmost, neighbor, compareDepth, maxDepth,
                       RTClimb(st, [ancestorLeftmost |-> leftmost,
                                    ancestorNeighbor |-> neighbor,
                                    rightModSum |-> 0, leftModSum |-> 0,
                                    err |-> FALSE], compareDepth))

RTApportionBody(st, cfg, node, leftmost, neighbor, compareDepth, maxDepth, c) ==
  IF c.err THEN [st EXCEPT !.err = TRUE]
  ELSE RTApportionNext(
         RTApportionMove(st, cfg, node, leftmost, neighbor, c,
                         RTNextLeft(st, st.val[node].children[1])),
         cfg, node, leftmost, neighbor, compareDepth, maxDepth)

RTApportionNext(s1, cfg, node, leftmost, neighbor, compareDepth, maxDepth) ==
  RTApportionLoop(s1, cfg, node, RTApportionLeft(s1, leftmost),
                  RTApportionRight(s1, neighbor), compareDepth + 1, maxDepth)

RTApportion(st, cfg, node) ==
  LET leftmost == st.val[node].children[1]
      neighbor == RTLeftSibling(st, leftmost)
      maxDepth == RTGetMaxDepth(st) - st.val[node].level
  IN RTApportionLoop(st, cfg, node, leftmost, neighbor, 1, maxDepth)

\* ------------------------------------------------------------------ walks
\* mutant: a leaf is put on its left sibling
RTFirstWalkLeafNoSeparation(st, cfg, node, ls) ==
  IF ls # NoNode
  THEN [st EXCEPT !.val[node].prelim = st.val[ls].prelim]
  ELSE [st EXCEPT !.val[node].prelim = 0]

\* firstWalk of a leaf
RTFirstWalkLeaf(st, cfg, node, ls) ==
  IF ls # NoNode
  THEN [st EXCEPT !.val[node].prelim = st.val[ls].prelim + RTGetNodeSeparation(cfg)]
  ELSE [st EXCEPT !.val[node].prelim = 0]

\* mutant: the modifier of a node with a left sibling is not set
RTFirstWalkAnchorNoMod(s1, cfg, node, mid, ls) ==
  IF ls # NoNode
  THEN RTApportion([s1 EXCEPT !.val[node].prelim =
                                 s1.val[ls].prelim + RTGetNodeSeparation(cfg)],
                   cfg, node)
  ELSE [s1 EXCEPT !.val[node].prelim = mid]

\* firstWalk of an internal node, after the walks of its children: mid is
\* the midpoint of the first and the last child, ls the left sibling
RTFirstWalkAnchor(s1, cfg, node, mid, ls) ==
  IF ls # NoNode
  THEN RTApportion([s1 EXCEPT !.val[node].prelim =
                                 s1.val[ls].prelim + RTGetNodeSeparation(cfg),
                               !.val[node].mod =
                                 s1.val[ls].prelim + RTGetNodeSeparation(cfg) - mid],
                   cfg, node)
  ELSE [s1 EXCEPT !.val[node].prelim = mid]

RTFirstWalkInternal(s1, cfg, node, kids) ==
  IF s1.err THEN s1
  ELSE RTFirstWalkAnchor(s1, cfg, node,
                         Half(s1.val[kids[1]].prelim + s1.val[kids[Len(kids)]].prelim),
                         RTLeftSibling(s1, node))

RECURSIVE RTFirstWalk(_, _, _)
RECURSIVE RTFirstWalkEach(_, _, _, _)
RTFirstWalk(st, cfg, node) ==
  IF st.err THEN st
  ELSE IF Len(st.val[node].children) = 0
  THEN RTFirstWalkLeaf(st, cfg, node, RTLeftSibling(st, node))
  ELSE RTFirstWalkInternal(RTFirstWalkEach(st, cfg, st.val[node].children, 1),
                           cfg, node, st.val[node].children)

RTFirstWalkEach(st, cfg, kids, i) ==
  IF i > Len(kids) \/ st.err THEN st
  ELSE RTFirstWalkEach(RTFirstWalk(st, cfg, kids[i]), cfg, kids, i + 1)

RECURSIVE RTSecondWalk(_, _, _, _)
RECURSIVE RTSecondWalkEach(_, _, _, _, _)
\* secondWalk putting the root one level separation down
RTSecondWalkFromOne(st, cfg, node, modSum) ==
  RTSecondWalkEach(
    IF cfg.direction = "LR"
    THEN [st EXCEPT !.val[node].y = st.val[node].prelim + modSum,
                    !.val[node].x = (st.val[node].level + 1)
                                      * (cfg.nodeHeight + cfg.verticalSpacing)]
    ELSE [st EXCEPT !.val[node].x = st.val[node].prelim + modSum,
                    !.val[node].y = (st.val[node].level + 1)
                                      * (cfg.nodeHeight + cfg.verticalSpacing)],
    cfg, st.val[node].children, 1, modSum + st.val[node].mod)

RTSecondWalk(st, cfg, node, modSum) ==
  RTSecondWalkEach(
    IF cfg.direction = "LR"
    THEN [st EXCEPT !.val[node].y = st.val[node].prelim + modSum,
                    !.val[node].x = st.val[node].level
                                      * (cfg.nodeHeight + cfg.verticalSpacing)]
    ELSE [st EXCEPT !.val[node].x = st.val[node].prelim + modSum,
                    !.val[node].y = st.val[node].level
                                      * (cfg.nodeHeight + cfg.verticalSpacing)],
    cfg, st.val[node].children, 1, modSum + st.val[node].mod)

RTSecondWalkEach(st, cfg, kids, i, modSum) ==
  IF i > Len(kids) THEN st
  ELSE RTSecondWalkEach(RTSecondWalk(st, cfg, kids[i], modSum),
                        cfg, kids, i + 1, modSum)

\* ------------------------------------------------------------------ result
Thrown == [err |-> TRUE, nodes |-> << >>, edges |-> << >>]

\* mutant: the edges of the result are those between known nodes
ConvertToReactFlowKnownEdges(m, nodes, edges) ==
  [err |-> FALSE,
   nodes |-> [i \in 1..Len(nodes) |->
                LET n == m.val[nodes[i]]
                IN [id |-> nodes[i], x |-> n.x, y |-> n.y, level |-> n.level,
                    isRoot |-> (n.parent = NoNode)]],
   edges |-> SelectSeq(edges, LAMBDA e : e[1] \in DOMAIN m.val /\ e[2] \in DOMAIN m.val)]

\* convertToReactFlow (both tree strategies): originalNodes.map, originalEdges.map
ConvertToReactFlow(m, nodes, edges) ==
  [err |-> FALSE,
   nodes |-> [i \in 1..Len(nodes) |->
                LET n == m.val[nodes[i]]
                IN [id |-> nodes[i], x |-> n.x, y |-> n.y, level |-> n.level,
                    isRoot |-> (n.parent = NoNode)]],
   edges |-> edges]

\* layout after the walks: convertToReactFlow, or the exception
RTFinish(st, nodes, edges) ==
  [result |-> IF st.err THEN Thrown ELSE ConvertToReactFlow(st, nodes, edges),
   nodeMap |-> [keys |-> st.keys, val |-> st.val]]

\* layout after firstWalk
RTWalked(st, cfg, root, nodes, edges) ==
  RTFinish(IF st.err THEN st ELSE RTSecondWalk(st, cfg, root, 0), nodes, edges)

\* layout after buildTree
RTBuilt(b, cfg, nodes, edges) ==
  IF b.st.err
  THEN RTFinish(b.st, nodes, edges)
  ELSE RTWalked(RTFirstWalk(RTInitializeNodes(b.st, b.root), cfg, b.root),
                cfg, b.root, nodes, edges)

\* layout: the result returned (or Thrown) and the node map left behind
RTLayout(nodeMap, cfg, nodes, edges) ==
  IF Len(nodes) = 0
  THEN [result |-> [err |-> FALSE, nodes |-> << >>, edges |-> << >>],
        nodeMap |-> nodeMap]
  ELSE RTBuilt(RTBuildTree(nodeMap, nodes, edges), cfg, nodes, edges)

\* ====================================================================
\* HierarchicalLayout
\* ====================================================================

\* nodes.forEach: adjacencyList[node.id] = []; inDegree[node.id] = 0
HLInitTables(nodes) ==
  [adj |-> [k \in {nodes[i] : i \in 1..Len(nodes)} |-> << >>],
   inDegree |-> [k \in {nodes[i] : i \in 1..Len(nodes)} |-> 0],
   err |-> FALSE]

\* edges.forEach: adjacencyList[edge.source].push(edge.target) throws a
\* TypeError when edge.source is no key of adjacencyList;
\* inDegree[edge.target] = (inDegree[edge.target] || 0) + 1 adds a key for
\* a target that is no node.
RECURSIVE HLAddEdges(_, _, _)
HLAddEdges(t, edges, i) ==
  IF i > Len(edges) \/ t.err THEN t
  ELSE LET s == edges[i][1]
           d == edges[i][2]
       IN IF s \notin DOMAIN t.adj
          THEN [t EXCEPT !.err = TRUE]
          ELSE LET old == IF d \in DOMAIN t.inDegree THEN t.inDegree[d] ELSE 0
               IN HLAddEdges(
                    [adj |-> [t.adj EXCEPT ![s] = Append(@, d)],
                     inDegree |-> [k \in (DOMAIN t.inDegree) \cup {d} |->
                                     IF k = d THEN old + 1 ELSE t.inDegree[k]],
                     err |-> FALSE],
                    edges, i + 1)

\* roots = nodes.filter(inDegree === 0); roots.length > 0 ? roots[0] : nodes[0]
\* (undefined, here NoNode, for an empty node list)
HLRootNode(t, nodes) ==
  LET roots == {i \in 1..Len(nodes) : t.inDegree[nodes[i]] = 0}
  IN IF roots # {}
     THEN nodes[CHOOSE i \in roots : \A j \in roots : i <= j]
     ELSE IF Len(nodes) > 0 THEN nodes[1] ELSE NoNode

\* adjacencyList[id].forEach(childId => if (!visited.has(childId)) queue.push(...))
RECURSIVE HLPushChildren(_, _, _, _, _)
HLPushChildren(queue, kids, i, visited, level) ==
  IF i > Len(kids) THEN queue
  ELSE HLPushChildren(
         IF kids[i] \in visited THEN queue
         ELSE Append(queue, [id |-> kids[i], level |-> level]),
         kids, i + 1, visited, level)

\* first BFS: levelWidth[level], a missing entry reading as 0.
\* adjacencyList[id].forEach throws a TypeError for an id that is no node.
RECURSIVE HLCountLevels(_, _)
\* mutant: every dequeued entry is counted, an already visited id included
HLCountLevelsEveryEntry(t, b) ==
  IF b.err \/ Len(b.queue) = 0 THEN b
  ELSE LET id == Head(b.queue).id
           level == Head(b.queue).level
           rest == Tail(b.queue)
       IN IF id \in b.visited
          THEN HLCountLevels(t, [b EXCEPT !.queue = rest,
                                          !.levelWidth[level] = @ + 1])
          ELSE IF id \notin DOMAIN t.adj
          THEN [b EXCEPT !.err = TRUE]
          ELSE LET visited == b.visited \cup {id}
               IN HLCountLevels(t,
                    [queue |-> HLPushChildren(rest, t.adj[id], 1, visited, level + 1),
                     visited |-> visited,
                     levelWidth |-> [b.levelWidth EXCEPT ![level] = @ + 1],
                     err |-> FALSE])

HLCountLevels(t, b) ==
  IF b.err \/ Len(b.queue) = 0 THEN b
  ELSE LET id == Head(b.queue).id
           level == Head(b.queue).level
           rest == Tail(b.queue)
       IN IF id \in b.visited
          THEN HLCountLevels(t, [b EXCEPT !.queue = rest])
          ELSE IF id \notin DOMAIN t.adj
          THEN [b EXCEPT !.err = TRUE]
          ELSE LET visited == b.visited \cup {id}
               IN HLCountLevels(t,
                    [queue |-> HLPushChildren(rest, t.adj[id], 1, visited, level + 1),
                     visited |-> visited,
                     levelWidth |-> [b.levelWidth EXCEPT ![level] = @ + 1],
                     err |-> FALSE])

\* mutant: levels counted from 1
HLPositionOneBased(cfg, levelNodes, indexInLevel, level) ==
  LET totalWidth == levelNodes * cfg.nodeWidth
                      + (levelNodes - 1) * cfg.horizontalSpacing
      startX == 0 - Half(totalWidth)
      cross == startX + indexInLevel * (cfg.nodeWidth + cfg.horizontalSpacing)
      depthCoord == level * (cfg.nodeHeight + cfg.verticalSpacing)
  IN IF cfg.direction = "LR"
     THEN [x |-> depthCoord, y |-> cross, level |-> level + 1]
     ELSE [x |-> cross, y |-> depthCoord, level |-> level + 1]

\* the position given to the node dequeued as number indexInLevel of its level
HLPosition(cfg, levelNodes, indexInLevel, level) ==
  LET totalWidth == levelNodes * cfg.nodeWidth
                      + (levelNodes - 1) * cfg.horizontalSpacing
      startX == 0 - Half(totalWidth)
      cross == startX + indexInLevel * (cfg.nodeWidth + cfg.horizontalSpacing)
      depthCoord == level * (cfg.nodeHeight + cfg.verticalSpacing)
  IN IF cfg.direction = "LR"
     THEN [x |-> depthCoord, y |-> cross, level |-> level]
     ELSE [x |-> cross, y |-> depthCoord, level |-> level]

\* second BFS: levelIndex[level] and positions[id]
RECURSIVE HLPlace(_, _, _, _)
HLPlace(t, cfg, levelWidth, b) ==
  IF b.err \/ Len(b.queue) = 0 THEN b
  ELSE LET id == Head(b.queue).id
           level == Head(b.queue).level
           rest == Tail(b.queue)
       IN IF id \in b.visited
          THEN HLPlace(t, cfg, levelWidth, [b EXCEPT !.queue = rest])
          ELSE IF id \notin DOMAIN t.adj
          THEN [b EXCEPT !.err = TRUE]
          ELSE LET visited == b.visited \cup {id}
                   pos == HLPosition(cfg, levelWidth[level], b.levelIndex[level], level)
               IN HLPlace(t, cfg, levelWidth,
                    [queue |-> HLPushChildren(rest, t.adj[id], 1, visited, level + 1),
                     visited |-> visited,
                     levelIndex |-> [b.levelIndex EXCEPT ![level] = @ + 1],
                     positions |-> [k \in (DOMAIN b.positions) \cup {id} |->
                                      IF k = id THEN pos ELSE b.positions[k]],
                     err |-> FALSE])

\* nodes.map: positions[node.id]?.x || 0, ...?.level || 0, inDegree === 0
HLFlowNodes(t, positions, nodes) ==
  [i \in 1..Len(nodes) |->
     LET id == nodes[i]
         has == id \in DOMAIN positions
     IN [id |-> id,
         x |-> IF has THEN positions[id].x ELSE 0,
         y |-> IF has THEN positions[id].y ELSE 0,
         level |-> IF has THEN positions[id].level ELSE 0,
         isRoot |-> (t.inDegree[id] = 0)]]

\* layout after the second BFS
HLPlaced(t, b2, nodes, edges) ==
  IF b2.err THEN Thrown
  ELSE [err |-> FALSE, nodes |-> HLFlowNodes(t, b2.positions, nodes), edges |-> edges]

\* an object without entries whose missing entries read as 0
HLZero(nodes) == [l \in 0..(Len(nodes) + 1) |-> 0]

\* layout after the first BFS
HLCounted(t, cfg, nodes, edges, root, b1) ==
  IF b1.err THEN Thrown
  ELSE HLPlaced(t,
                HLPlace(t, cfg, b1.levelWidth,
                        [queue |-> <<[id |-> root, level |-> 0]>>, visited |-> {},
                         levelIndex |-> HLZero(nodes), positions |-> << >>,
                         err |-> FALSE]),
                nodes, edges)

\* layout after the root was chosen; rootNode.id throws for an empty node list
HLRooted(t, cfg, nodes, edges, root) ==
  IF root = NoNode THEN Thrown
  ELSE HLCounted(t, cfg, nodes, edges, root,
                 HLCountLevels(t, [queue |-> <<[id |-> root, level |-> 0]>>,
                                   visited |-> {}, levelWidth |-> HLZero(nodes),
                                   err |-> FALSE]))

\* layout after edges.forEach
HLTabled(t, cfg, nodes, edges) ==
  IF t.err THEN Thrown ELSE HLRooted(t, cfg, nodes, edges, HLRootNode(t, nodes))

\* layout: the result returned, or Thrown
HLLayout(cfg, nodes, edges) ==
  HLTabled(HLAddEdges(HLInitTables(nodes), edges, 1), cfg, nodes, edges)

\* ====================================================================
\* EnhancedTreeLayout
\* ====================================================================

ETNode(id) ==
  [id |-> id, children |-> << >>, parent |-> NoNode, x |-> 0, y |-> 0,
   level |-> 0, subtreeWidth |-> 0, leftmostChild |-> NoNode,
   rightmostChild |-> NoNode, index |-> 0]

RECURSIVE ETCreateNodes(_, _, _)
ETCreateNodes(m, nodes, i) ==
  IF i > Len(nodes) THEN m
  ELSE ETCreateNodes(MapSet(m, nodes[i], ETNode(nodes[i])), nodes, i + 1)

\* The working state of the Enhanced strategy: the node map (keys, val),
\* levelNodes and the exception flag.  levelNodes is a Map keyed by level;
\* a level is first met only below the one before it, so the insertion
\* order of its keys is 0, 1, 2, ... and levelNodes[l + 1] is the entry of
\* level l.
ETPushLevel(levelNodes, level, node) ==
  IF level + 1 > Len(levelNodes)
  THEN Append(levelNodes, <<node>>)
  ELSE [levelNodes EXCEPT ![level + 1] = Append(@, node)]

RECURSIVE ETAssignLevels(_, _, _, _)
RECURSIVE ETAssignLevelsEach(_, _, _, _, _)
ETAssignLevels(st, node, level, depth) ==
  IF st.err THEN st
  ELSE IF depth > Len(st.keys) THEN [st EXCEPT !.err = TRUE]
  ELSE ETAssignLevelsEach([st EXCEPT !.val[node].level = level,
                                     !.levelNodes = ETPushLevel(@, level, node)],
                          st.val[node].children, 1, level + 1, depth + 1)

ETAssignLevelsEach(st, kids, i, level, depth) ==
  IF i > Len(kids) \/ st.err THEN st
  ELSE ETAssignLevelsEach(ETAssignLevels(st, kids[i], level, depth),
                          kids, i + 1, level, depth)

\* calculateSubtreeSize: sets subtreeWidth in the subtree of node; the
\* state and the returned size.  r is the state and the sum after the
\* children.
ETSubtreeSizeSet(r, node) ==
  [st |-> [r.st EXCEPT !.val[node].subtreeWidth = Max2(r.size, 1)],
   size |-> Max2(r.size, 1)]

RECURSIVE ETCalculateSubtreeSize(_, _)
RECURSIVE ETCalculateSubtreeSizeEach(_, _, _, _)
RECURSIVE ETSubtreeSizeAdd(_, _, _, _)
ETCalculateSubtreeSize(st, node) ==
  IF Len(st.val[node].children) = 0
  THEN [st |-> [st EXCEPT !.val[node].subtreeWidth = 1], size |-> 1]
  ELSE ETSubtreeSizeSet(ETCalculateSubtreeSizeEach(st, st.val[node].children, 1, 0),
                        node)

ETCalculateSubtreeSizeEach(st, kids, i, totalWidth) ==
  IF i > Len(kids) THEN [st |-> st, size |-> totalWidth]
  ELSE ETSubtreeSizeAdd(ETCalculateSubtreeSize(st, kids[i]), kids, i, totalWidth)

ETSubtreeSizeAdd(r, kids, i, totalWidth) ==
  ETCalculateSubtreeSizeEach(r.st, kids, i + 1, totalWidth + r.size)

\* Array.prototype.sort is stable.  key[e] orders the elements: the
\* comparator is negative for (a, b) exactly when key[a] < key[b].  Each
\* element is inserted after the last element whose key is not greater.
RECURSIVE InsertStable(_, _, _)
InsertStable(sorted, e, key) ==
  IF Len(sorted) = 0 THEN <<e>>
  ELSE IF key[e] < key[sorted[Len(sorted)]]
       THEN Append(InsertStable(SubSeq(sorted, 1, Len(sorted) - 1), e, key),
                   sorted[Len(sorted)])
       ELSE Append(sorted, e)

RECURSIVE StableSort(_, _, _)
StableSort(s, n, key) ==
  IF n = 0 THEN << >>
  ELSE InsertStable(StableSort(s, n - 1, key), s[n], key)

\* mutant: the children are sorted by ascending subtreeWidth
ETSortedChildrenAscending(st, node) ==
  LET key == [k \in DOMAIN st.val |-> st.val[k].subtreeWidth]
  IN StableSort(st.val[node].children, Len(st.val[node].children), key)

\* node.children.sort((a, b) => b.subtreeWidth - a.subtreeWidth)
ETSortedChildren(st, node) ==
  LET key == [k \in DOMAIN st.val |-> 0 - st.val[k].subtreeWidth]
  IN StableSort(st.val[node].children, Len(st.val[node].children), key)

\* leftmostChild and rightmostChild, after the children were sorted
ETSetOutermost(st, node) ==
  IF Len(st.val[node].children) > 0
  THEN [st EXCEPT !.val[node].leftmostChild = st.val[node].children[1],
                  !.val[node].rightmostChild =
                    st.val[node].children[Len(st.val[node].children)]]
  ELSE st

RECURSIVE ETSortChildrenBySubtreeSize(_, _)
RECURSIVE ETSortChildrenEach(_, _, _)
RECURSIVE ETSortSized(_, _)
RECURSIVE ETSortRecurse(_, _)
ETSortChildrenBySubtreeSize(st, node) ==
  ETSortSized(ETCalculateSubtreeSize(st, node).st, node)

\* after calculateSubtreeSize: sort the children
ETSortSized(st, node) ==
  ETSortRecurse([st EXCEPT !.val[node].children = ETSortedChildren(st, node)], node)

\* after the sort: the children's children, then leftmost and rightmost
ETSortRecurse(st, node) ==
  ETSetOutermost(ETSortChildrenEach(st, st.val[node].children, 1), node)

ETSortChildrenEach(st, kids, i) ==
  IF i > Len(kids) THEN st
  ELSE ETSortChildrenEach(ETSortChildrenBySubtreeSize(st, kids[i]), kids, i + 1)

\* this.nodeMap.clear(); this.levelNodes.clear()
EmptyScratch == [keys |-> << >>, val |-> << >>, levelNodes |-> << >>]

ETClear(scratch) == EmptyScratch

\* buildTreeStructure after assignLevels
ETLevelled(st, root) ==
  [st |-> IF st.err THEN st ELSE ETSortChildrenBySubtreeSize(st, root),
   root |-> root]

ETRooted(m, levelNodes, root) ==
  ETLevelled(ETAssignLevels([keys |-> m.keys, val |-> m.val,
                             levelNodes |-> levelNodes, err |-> FALSE],
                            root, 0, 1),
             root)

ETLinked(m, levelNodes, nodes) == ETRooted(m, levelNodes, FindRoot(m, nodes))

ETBuildTreeStructure(scratch, nodes, edges) ==
  ETLinked(BuildLinks(ETCreateNodes([keys |-> scratch.keys, val |-> scratch.val],
                                    nodes, 1),
                      edges, 1),
           scratch.levelNodes, nodes)

\* mutant: the separation without the spacing
ETGetNodeSeparationNoSpacing(cfg) == cfg.nodeWidth

ETGetNodeSeparation(cfg) == cfg.nodeWidth + cfg.horizontalSpacing

\* mutant: the parent is centred between the start of its first child and
\* the next free x after its last child
ETCenterOverExtent(r, node) ==
  [st |-> [r.st EXCEPT !.val[node].x = Half(r.childPositions[1] + r.next)],
   next |-> r.next]

\* calculateSubtreePositions: the state and the returned next free x.
\* r is the state, the next free x and childPositions after the children.
ETCenterOverChildren(r, node) ==
  [st |-> [r.st EXCEPT !.val[node].x =
             Half(r.childPositions[1] + r.childPositions[Len(r.childPositions)])],
   next |-> r.next]

RECURSIVE ETCalculateSubtreePositions(_, _, _, _)
RECURSIVE ETPositionChildren(_, _, _, _, _, _)
RECURSIVE ETPositionNext(_, _, _, _, _)
ETCalculateSubtreePositions(st, cfg, node, startX) ==
  IF Len(st.val[node].children) = 0
  THEN [st |-> [st EXCEPT !.val[node].x = startX],
        next |-> startX + ETGetNodeSeparation(cfg)]
  ELSE ETCenterOverChildren(
         ETPositionChildren(st, cfg, st.val[node].children, 1, startX, << >>), node)

ETPositionChildren(st, cfg, kids, i, currentX, childPositions) ==
  IF i > Len(kids)
  THEN [st |-> st, next |-> currentX, childPositions |-> childPositions]
  ELSE ETPositionNext(
         ETCalculateSubtreePositions([st EXCEPT !.val[kids[i]].index = i - 1],
                                     cfg, kids[i], currentX),
         cfg, kids, i, Append(childPositions, currentX))

ETPositionNext(r, cfg, kids, i, childPositions) ==
  ETPositionChildren(r.st, cfg, kids, i + 1, r.next, childPositions)

RECURSIVE ETShiftSubtree(_, _, _)
RECURSIVE ETShiftSubtreeEach(_, _, _, _)
ETShiftSubtree(st, node, shift) ==
  ETShiftSubtreeEach([st EXCEPT !.val[node].x = @ + shift],
                     st.val[node].children, 1, shift)

ETShiftSubtreeEach(st, kids, i, shift) ==
  IF i > Len(kids) THEN st
  ELSE ETShiftSubtreeEach(ETShiftSubtree(st, kids[i], shift), kids, i + 1, shift)

\* the sweep over one sorted level: for (let i = 1; i < nodesAtLevel.length; i++)
RECURSIVE ETSweep(_, _, _, _)
ETSweep(st, cfg, nodesAtLevel, i) ==
  IF i > Len(nodesAtLevel) THEN st
  ELSE ETSweep(IF st.val[nodesAtLevel[i]].x
                    < st.val[nodesAtLevel[i - 1]].x + ETGetNodeSeparation(cfg)
               THEN ETShiftSubtree(st, nodesAtLevel[i],
                                   st.val[nodesAtLevel[i - 1]].x
                                     + ETGetNodeSeparation(cfg)
                                     - st.val[nodesAtLevel[i]].x)
               ELSE st,
               cfg, nodesAtLevel, i + 1)

\* nodesAtLevel.sort((a, b) => a.x - b.x)
ETSortedLevel(st, l) ==
  StableSort(st.levelNodes[l], Len(st.levelNodes[l]),
             [k \in DOMAIN st.val |-> st.val[k].x])

\* resolveConflicts: for each entry of levelNodes, in insertion order
RECURSIVE ETResolveLevels(_, _, _)
RECURSIVE ETResolveSorted(_, _, _, _)
ETResolveLevels(st, cfg, l) ==
  IF l > Len(st.levelNodes) THEN st
  ELSE IF Len(st.levelNodes[l]) <= 1 THEN ETResolveLevels(st, cfg, l + 1)
  ELSE ETResolveSorted(st, cfg, l, ETSortedLevel(st, l))

ETResolveSorted(st, cfg, l, sorted) ==
  ETResolveLevels(ETSweep([st EXCEPT !.levelNodes[l] = sorted], cfg, sorted, 2),
                  cfg, l + 1)

ETResolveConflicts(st, cfg) == ETResolveLevels(st, cfg, 1)

\* centerTree.  minX starts at Number.MAX_VALUE and maxX at Number.MIN_VALUE,
\* the smallest positive double 5e-324: when no x is positive maxX stays
\* 5e-324, treeWidth = 5e-324 - minX rounds to -minX (or stays 5e-324 when
\* minX is 0, and then -treeWidth / 2 rounds to -0): the doubles computed
\* are those of a maxX starting at 0.
ETMinX(st) ==
  CHOOSE v \in {st.val[k].x : k \in DOMAIN st.val} :
    \A k \in DOMAIN st.val : v <= st.val[k].x

ETMaxX(st) ==
  Max2(0, CHOOSE v \in {st.val[k].x : k \in DOMAIN st.val} :
            \A k \in DOMAIN st.val : v >= st.val[k].x)

ETShiftAll(st, centerShift) ==
  [st EXCEPT !.val = [k \in DOMAIN st.val |->
                        [st.val[k] EXCEPT !.x = @ + centerShift]]]

ETCenterTree(st) == ETShiftAll(st, 0 - Half(ETMaxX(st) - ETMinX(st)))

\* mutant: the left-to-right branch is missing
ETSetAbsolutePositionsNoSwap(st, cfg, isHorizontal) ==
  [st EXCEPT !.val = [k \in DOMAIN st.val |->
     [st.val[k] EXCEPT !.y = st.val[k].level * (cfg.nodeHeight + cfg.verticalSpacing)]]]

ETSetAbsolutePositions(st, cfg, isHorizontal) ==
  [st EXCEPT !.val = [k \in DOMAIN st.val |->
     IF isHorizontal
     THEN [st.val[k] EXCEPT
             !.x = st.val[k].level * (cfg.nodeHeight + cfg.verticalSpacing),
             !.y = st.val[k].x]
     ELSE [st.val[k] EXCEPT
             !.y = st.val[k].level * (cfg.nodeHeight + cfg.verticalSpacing)]]]

ETCalculatePositions(st, cfg, rootNode) ==
  ETSetAbsolutePositions(
    ETCenterTree(
      ETResolveConflicts(ETCalculateSubtreePositions(st, cfg, rootNode, 0).st, cfg)),
    cfg, cfg.direction = "LR")

\* layout after the positions: convertToReactFlow
ETFinish(st, nodes, edges) ==
  [result |-> IF st.err THEN Thrown ELSE ConvertToReactFlow(st, nodes, edges),
   scratch |-> [keys |-> st.keys, val |-> st.val, levelNodes |-> st.levelNodes]]

\* layout after buildTreeStructure
ETBuilt(b, cfg, nodes, edges) ==
  IF b.st.err
  THEN ETFinish(b.st, nodes, edges)
  ELSE ETFinish(ETCalculatePositions(b.st, cfg, b.root), nodes, edges)

\* layout: the result returned (or Thrown) and the scratch state left behind
ETLayout(scratch, cfg, nodes, edges) ==
  IF Len(nodes) = 0
  THEN [result |-> [err |-> FALSE, nodes |-> << >>, edges |-> << >>],
        scratch |-> scratch]
  ELSE ETBuilt(ETBuildTreeStructure(ETClear(scratch), nodes, edges),
               cfg, nodes, edges)

\* ====================================================================
\* createLayoutEngine and the engine instances
\* ====================================================================

AlgorithmNames == {"reingold-tilford", "enhanced-tree", "hierarchical", "dagre"}

\* mutant: the default of the switch is the first case
StrategyOfFirstDefault(algorithm) ==
  CASE algorithm = "reingold-tilford" -> "ReingoldTilfordLayout"
    [] algorithm = "enhanced-tree" -> "EnhancedTreeLayout"
    [] algorithm = "hierarchical" -> "HierarchicalLayout"
    [] OTHER -> "ReingoldTilfordLayout"

\* the class chosen by the switch of createLayoutEngine
StrategyOf(algorithm) ==
  CASE algorithm = "reingold-tilford" -> "ReingoldTilfordLayout"
    [] algorithm = "enhanced-tree" -> "EnhancedTreeLayout"
    [] algorithm = "hierarchical" -> "HierarchicalLayout"
    [] OTHER -> "HierarchicalLayout"

\* A new instance: its config and its empty private maps (nodeMap, and
\* levelNodes of the Enhanced strategy).
CreateLayoutEngine(algorithm, config) ==
  [algorithm |-> algorithm, strategy |-> StrategyOf(algorithm),
   config |-> config, scratch |-> EmptyScratch]

\* engine.layout(nodes, edges): the result and the engine afterwards
RTEngineAfter(e, r) ==
  [result |-> r.result,
   engine |-> [e EXCEPT !.scratch = [keys |-> r.nodeMap.keys, val |-> r.nodeMap.val,
                                     levelNodes |-> << >>]]]

ETEngineAfter(e, r) ==
  [result |-> r.result, engine |-> [e EXCEPT !.scratch = r.scratch]]

EngineLayout(e, nodes, edges) ==
  CASE e.strategy = "ReingoldTilfordLayout" ->
         RTEngineAfter(e, RTLayout([keys |-> e.scratch.keys, val |-> e.scratch.val],
                                   e.config, nodes, edges))
    [] e.strategy = "EnhancedTreeLayout" ->
         ETEngineAfter(e, ETLayout(e.scratch, e.config, nodes, edges))
    [] OTHER ->
         [result |-> HLLayout(e.config, nodes, edges), engine |-> e]

\* ====================================================================
\* Inputs
\* ====================================================================

\* Rooted ordered trees of n nodes: node t > 1 has the parent p[t] < t, and
\* the nodes are numbered breadth first, so that every shape of an ordered
\* tree occurs once.  The edges list the children of a node in their order.
TreeParents(n) ==
  {p \in [2..n -> 1..(n - 1)] :
     \A t \in 2..n : p[t] < t /\ (t < n => p[t] <= p[t + 1])}

TreeInput(n, p) ==
  [nodes |-> [i \in 1..n |-> i],
   edges |-> [i \in 1..(n - 1) |-> <<p[i + 1], i + 1>>]]

TreeInputs == {TreeInput(n, p) : <<n, p>> \in UNION {{n} \X TreeParents(n) : n \in 1..MaxTreeNodes}}

\* Small inputs of any shape: the node list in ascending or descending id
\* order, and any list of edges between the ids and the Unknown id.
SeqsUpTo(S, k) == UNION {[1..j -> S] : j \in 0..k}

GenInputs ==
  UNION {[nodes : {[i \in 1..n |-> i], [i \in 1..n |-> n + 1 - i]},
          edges : SeqsUpTo(((1..n) \cup {Unknown}) \X ((1..n) \cup {Unknown}),
                           MaxGenEdges)] : n \in 0..MaxGenNodes}

\* A tree followed by one more node that no edge touches.
ForestInputs ==
  {[nodes |-> Append(t.nodes, Len(t.nodes) + 1), edges |-> t.edges] :
     t \in {u \in TreeInputs : Len(u.nodes) <= MaxForestTreeNodes}}

Inputs == TreeInputs \cup GenInputs \cup ForestInputs

\* the inputs laid out by an engine that has been used before
ReuseInputs ==
  {inp \in Inputs : Len(inp.nodes) <= MaxReuseNodes /\ Len(inp.edges) <= MaxReuseEdges}

\* ====================================================================
\* The program: engines are created and asked for layouts
\* ====================================================================
\* engine: the engine instance; used: whether it has laid out an input;
\* input, result: the arguments and the outcome of its latest layout call;
\* prevNodes: the length of the node list of the call before that one
\* (NoNode when there was none).
VARIABLES engine, used, input, result, prevNodes

\* Two calls of layout on one engine, the second made while the first is
\* under way.  outer: the first call, its position (pc), its arguments, the
\* node objects it created (st) and its root, whether the maps of the engine
\* still hold these objects (private), and what it returned; inner: the
\* second call, its arguments and what it returned.
VARIABLES outer, inner

\* The backend: cluster is what the Kubernetes API holds, request the latest
\* request of a resource tree and response the answer to it.
VARIABLES cluster, request, response

vars == <<engine, used, input, result, prevNodes, outer, inner,
          cluster, request, response>>

apiVars == <<cluster, request, response>>
layoutVars == <<engine, used, input, result, prevNodes, outer, inner>>

NoInput == [nodes |-> << >>, edges |-> << >>]
NoResult == [err |-> FALSE, nodes |-> << >>, edges |-> << >>]

NoCall ==
  [pc |-> "idle", input |-> NoInput, st |-> EmptyScratch, root |-> NoNode,
   private |-> TRUE, result |-> NoResult]
NoInner == [ran |-> FALSE, input |-> NoInput, result |-> NoResult]

NoCluster == [items |-> << >>]
NoRequest == [type |-> "", namespace |-> "", root |-> NoNode]
NoResponse == [code |-> 0, body |-> << >>, pools |-> 0]

Init ==
  /\ engine \in {CreateLayoutEngine(a, c) : a \in AlgorithmNames, c \in Configs}
  /\ used = FALSE
  /\ input = NoInput
  /\ result = NoResult
  /\ prevNodes = NoNode
  /\ outer = NoCall
  /\ inner = NoInner
  /\ cluster = NoCluster
  /\ request = NoRequest
  /\ response = NoResponse

NewEngine ==
  \E a \in AlgorithmNames, c \in Configs :
    /\ engine' = CreateLayoutEngine(a, c)
    /\ used' = FALSE
    /\ input' = NoInput
    /\ result' = NoResult
    /\ prevNodes' = NoNode
    /\ UNCHANGED <<outer, inner, cluster, request, response>>

\* one call engine.layout(inp.nodes, inp.edges) with the outcome r
LayoutCall(inp, r) ==
  /\ engine' = r.engine
  /\ used' = TRUE
  /\ input' = inp
  /\ result' = r.result
  /\ prevNodes' = IF used THEN Len(input.nodes) ELSE NoNode
  /\ UNCHANGED <<outer, inner, cluster, request, response>>

Layout ==
  \E inp \in (IF used THEN ReuseInputs ELSE Inputs) :
    LayoutCall(inp, EngineLayout(engine, inp.nodes, inp.edges))

Next == NewEngine \/ Layout

Spec == Init /\ [][Next]_vars

\* ====================================================================
\* A second call of layout made while a first one is under way
\* ====================================================================
\* layout calls nothing but its own methods, so a second call on the same
\* engine can only start where the first one reads its arguments; it then
\* runs to its end before the first one goes on.  The first call is followed
\* through its phases: buildTree (buildTreeStructure), the walks
\* (calculateSubtreePositions), and the rest, which reads this.nodeMap and
\* this.levelNodes again.

OverlapInputs == ReuseInputs

\* the first call after `if (nodes.length === 0)` and buildTree, b
RTOuterBuilt(e, inp, b) ==
  [outer |-> IF b.st.err
             THEN [NoCall EXCEPT !.pc = "done", !.input = inp, !.result = Thrown]
             ELSE [NoCall EXCEPT !.pc = "built", !.input = inp, !.st = b.st,
                                 !.root = b.root],
   engine |-> [e EXCEPT !.scratch = [keys |-> b.st.keys, val |-> b.st.val,
                                     levelNodes |-> << >>]]]

\* the first call after `if (nodes.length === 0)` and buildTreeStructure, b
ETOuterBuilt(e, inp, b) ==
  [outer |-> IF b.st.err
             THEN [NoCall EXCEPT !.pc = "done", !.input = inp, !.result = Thrown]
             ELSE [NoCall EXCEPT !.pc = "built", !.input = inp, !.st = b.st,
                                 !.root = b.root],
   engine |-> [e EXCEPT !.scratch = [keys |-> b.st.keys, val |-> b.st.val,
                                     levelNodes |-> b.st.levelNodes]]]

\* the first call up to the end of buildTree; the Hierarchical strategy has
\* local tables only
OuterBuild(e, inp) ==
  CASE e.strategy = "HierarchicalLayout" ->
         [outer |-> [NoCall EXCEPT !.pc = "built", !.input = inp], engine |-> e]
    [] e.strategy # "HierarchicalLayout" /\ Len(inp.nodes) = 0 ->
         [outer |-> [NoCall EXCEPT !.pc = "done", !.input = inp,
                                   !.result = [err |-> FALSE, nodes |-> << >>,
                                               edges |-> << >>]],
          engine |-> e]
    [] e.strategy = "ReingoldTilfordLayout" /\ Len(inp.nodes) > 0 ->
         RTOuterBuilt(e, inp,
                      RTBuildTree([keys |-> e.scratch.keys, val |-> e.scratch.val],
                                  inp.nodes, inp.edges))
    [] e.strategy = "EnhancedTreeLayout" /\ Len(inp.nodes) > 0 ->
         ETOuterBuilt(e, inp,
                      ETBuildTreeStructure(ETClear(e.scratch), inp.nodes, inp.edges))

\* initializeNodes, firstWalk, secondWalk (calculateSubtreePositions): they
\* follow parent and children of the call's own node objects
OuterWalked(e, o) ==
  CASE e.strategy = "ReingoldTilfordLayout" ->
         RTSecondWalk(RTFirstWalk(RTInitializeNodes(o.st, o.root), e.config, o.root),
                      e.config, o.root, 0)
    [] e.strategy = "EnhancedTreeLayout" ->
         ETCalculateSubtreePositions(o.st, e.config, o.root, 0).st
    [] OTHER -> o.st

\* this.nodeMap.get(node.id)! of every node of the call, then the fields of
\* what it returned: a TypeError when the map has no such node
ConvertFromMap(m, nodes, edges) ==
  IF \A i \in 1..Len(nodes) : MapHas(m, nodes[i])
  THEN ConvertToReactFlow(m, nodes, edges)
  ELSE Thrown

\* resolveConflicts, centerTree, setAbsolutePositions on the maps of the engine
ETOuterPositioned(cfg, base) ==
  ETSetAbsolutePositions(ETCenterTree(ETResolveConflicts(base, cfg)),
                         cfg, cfg.direction = "LR")

ETOuterConverted(e, o, s2) ==
  [result |-> ConvertFromMap(s2, o.input.nodes, o.input.edges),
   engine |-> [e EXCEPT !.scratch = [keys |-> s2.keys, val |-> s2.val,
                                     levelNodes |-> s2.levelNodes]]]

RTOuterConverted(e, o, m) ==
  [result |-> ConvertFromMap(m, o.input.nodes, o.input.edges),
   engine |-> [e EXCEPT !.scratch = [keys |-> m.keys, val |-> m.val,
                                     levelNodes |-> << >>]]]

\* the rest of the first call: the maps of the engine hold the objects of
\* the call that filled them last
OuterFinished(e, o) ==
  CASE e.strategy = "ReingoldTilfordLayout" ->
         RTOuterConverted(e, o, IF o.private THEN o.st ELSE e.scratch)
    [] e.strategy = "EnhancedTreeLayout" ->
         ETOuterConverted(e, o,
           ETOuterPositioned(e.config,
             IF o.private THEN o.st
             ELSE [keys |-> e.scratch.keys, val |-> e.scratch.val,
                   levelNodes |-> e.scratch.levelNodes, err |-> FALSE]))
    [] OTHER ->
         [result |-> HLLayout(e.config, o.input.nodes, o.input.edges), engine |-> e]

OverlapInit ==
  /\ engine \in {CreateLayoutEngine(a, c) : a \in AlgorithmNames, c \in Configs}
  /\ used = FALSE
  /\ input = NoInput
  /\ result = NoResult
  /\ prevNodes = NoNode
  /\ outer = NoCall
  /\ inner = NoInner
  /\ cluster = NoCluster
  /\ request = NoRequest
  /\ response = NoResponse

OuterBegun(r) ==
  /\ outer' = r.outer
  /\ engine' = r.engine
  /\ UNCHANGED <<used, input, result, prevNodes, inner>>
  /\ UNCHANGED apiVars

OuterBegin ==
  /\ outer.pc = "idle"
  /\ \E inp \in OverlapInputs : OuterBegun(OuterBuild(engine, inp))

OuterWalk ==
  /\ outer.pc = "built"
  /\ outer' = [outer EXCEPT !.pc = "walked", !.st = OuterWalked(engine, outer)]
  /\ UNCHANGED <<engine, used, input, result, prevNodes, inner>>
  /\ UNCHANGED apiVars

\* the second call, from its first to its last step; it leaves its own node
\* objects in the maps unless it returned at `if (nodes.length === 0)`
InnerDone(inp, r) ==
  /\ ~r.result.err
  /\ engine' = r.engine
  /\ inner' = [ran |-> TRUE, input |-> inp, result |-> r.result]
  /\ outer' = [outer EXCEPT !.private =
                 outer.private /\ (engine.strategy = "HierarchicalLayout"
                                     \/ Len(inp.nodes) = 0)]
  /\ UNCHANGED <<used, input, result, prevNodes>>
  /\ UNCHANGED apiVars

InnerLayout ==
  /\ outer.pc \in {"built", "walked"}
  /\ ~inner.ran
  /\ \E inp \in OverlapInputs : InnerDone(inp, EngineLayout(engine, inp.nodes, inp.edges))

OuterEnded(r) ==
  /\ outer' = [outer EXCEPT !.pc = "done", !.result = r.result]
  /\ engine' = r.engine
  /\ UNCHANGED <<used, input, result, prevNodes, inner>>
  /\ UNCHANGED apiVars

OuterFinish ==
  /\ outer.pc = "walked"
  /\ OuterEnded(OuterFinished(engine, outer))

OverlapNewEngine ==
  /\ outer.pc = "done"
  /\ \E a \in AlgorithmNames, c \in Configs : engine' = CreateLayoutEngine(a, c)
  /\ outer' = NoCall
  /\ inner' = NoInner
  /\ UNCHANGED <<used, input, result, prevNodes>>
  /\ UNCHANGED apiVars

OverlapNext == OuterBegin \/ OuterWalk \/ InnerLayout \/ OuterFinish \/ OverlapNewEngine

OverlapSpec == OverlapInit /\ [][OverlapNext]_vars

\* ====================================================================
\* Backend: ResourcePool, ResourceTreeBuilder and the tree API handler
\* ====================================================================
\* A resource is its UID and the UIDs of its ownerReferences, in their
\* order.  The resources that the List calls of buildResourcePool return
\* have the UIDs 1, 2, ...; one more resource can be fetched by name but is
\* not listed.

UnlistedUID == 0
MissingName == -2

ResourceOf(uid, owners) == [uid |-> uid, owners |-> owners]

\* NewResourcePool
NewResourcePool == [resources |-> << >>, byOwner |-> << >>]

\* rp.byOwner[ownerUID]: nil for a key the map does not have
GetChildrenByOwner(rp, ownerUID) ==
  IF ownerUID \in DOMAIN rp.byOwner THEN rp.byOwner[ownerUID] ELSE << >>

\* the loop of AddResource over the ownerReferences
RECURSIVE IndexByOwners(_, _, _, _)
IndexByOwners(byOwner, resource, refs, i) ==
  IF i > Len(refs) THEN byOwner
  ELSE IndexByOwners(
         (refs[i] :> Append(IF refs[i] \in DOMAIN byOwner THEN byOwner[refs[i]]
                            ELSE << >>,
                            resource.uid)) @@ byOwner,
         resource, refs, i + 1)

\* mutant: only the first ownerReference is indexed
AddResourceFirstOwner(rp, resource) ==
  [resources |-> (resource.uid :> resource) @@ rp.resources,
   byOwner |-> IndexByOwners(rp.byOwner, resource,
                             SubSeq(resource.owners, 1,
                                    IF Len(resource.owners) > 0 THEN 1 ELSE 0), 1)]

AddResource(rp, resource) ==
  [resources |-> (resource.uid :> resource) @@ rp.resources,
   byOwner |-> IndexByOwners(rp.byOwner, resource, resource.owners, 1)]

\* buildResourcePool: the items of the List call of every supported type,
\* one after the other
RECURSIVE AddResources(_, _, _)
AddResources(rp, items, i) ==
  IF i > Len(items) THEN rp
  ELSE AddResources(AddResource(rp, items[i]), items, i + 1)

BuildResourcePool(items) == AddResources(NewResourcePool, items, 1)

\* &ResourceTreeNode{Resource: resource, Children: []*ResourceTreeNode{}}
LeafNode(uid) == [uid |-> uid, children |-> << >>]

\* the deferred rtb.visited[rootUID] = false, and the node returned
TreeNodeBuilt(uid, r) ==
  [node |-> [uid |-> uid, children |-> r.children],
   visited |-> r.visited \ {uid}]

\* mutant: a resource met again on the path gets its children as leaves
RECURSIVE BuildTreeFromPoolLate(_, _, _)
BuildTreeFromPoolLate(pool, visited, rootUID) ==
  IF rootUID \in visited
  THEN [node |-> [uid |-> rootUID,
                  children |-> [i \in 1..Len(GetChildrenByOwner(pool, rootUID)) |->
                                  LeafNode(GetChildrenByOwner(pool, rootUID)[i])]],
        visited |-> visited]
  ELSE LET kids == GetChildrenByOwner(pool, rootUID)
           F[i \in 0..Len(kids)] ==
             IF i = 0 THEN [children |-> << >>, visited |-> visited \cup {rootUID}]
             ELSE LET c == BuildTreeFromPoolLate(pool, F[i - 1].visited, kids[i])
                  IN [children |-> Append(F[i - 1].children, c.node),
                      visited |-> c.visited]
       IN TreeNodeBuilt(rootUID, F[Len(kids)])

\* buildTreeFromPool: the node built for rootUID and rtb.visited afterwards;
\* visited holds the UIDs whose entry is true
RECURSIVE BuildTreeFromPool(_, _, _)
RECURSIVE BuildChildren(_, _, _, _, _)
RECURSIVE ChildBuilt(_, _, _, _, _)
BuildTreeFromPool(pool, visited, rootUID) ==
  IF rootUID \in visited
  THEN [node |-> LeafNode(rootUID), visited |-> visited]
  ELSE TreeNodeBuilt(rootUID,
                     BuildChildren(pool, visited \cup {rootUID},
                                   GetChildrenByOwner(pool, rootUID), 1, << >>))

\* for _, child := range children
BuildChildren(pool, visited, kids, i, acc) ==
  IF i > Len(kids) THEN [children |-> acc, visited |-> visited]
  ELSE ChildBuilt(pool, kids, i, acc, BuildTreeFromPool(pool, visited, kids[i]))

ChildBuilt(pool, kids, i, acc, c) ==
  BuildChildren(pool, c.visited, kids, i + 1, Append(acc, c.node))

\* GetResourceTree of a new builder: the pool is built, then the tree
GetResourceTree(items, rootUID) ==
  BuildTreeFromPool(BuildResourcePool(items), {}, rootUID).node

RECURSIVE CountNodes(_)
RECURSIVE CountNodesFrom(_, _, _)
CountNodes(node) == CountNodesFrom(node.children, 1, 1)

CountNodesFrom(children, i, count) ==
  IF i > Len(children) THEN count
  ELSE CountNodesFrom(children, i + 1, count + CountNodes(children[i]))

\* ------------------------------------------------------------ the handler
\* the requests name one of these types; strings.ToLower of each
TypeNames == {"deployment", "Deployment", "invalidtype"}

ToLower(t) == IF t = "Deployment" THEN "deployment" ELSE t

\* the keys of resourceMappings among the lowered type names
ResourceMappings == {"deployment"}

\* mutant: the namespace is not required
GetResourceTreeHandlerAnyNamespace(c, req) ==
  IF ToLower(req.type) \notin ResourceMappings
  THEN [code |-> 400, body |-> << >>, pools |-> 0]
  ELSE IF \A i \in 1..Len(c.items) : c.items[i].uid # req.root
          /\ req.root # UnlistedUID
  THEN [code |-> 404, body |-> << >>, pools |-> 0]
  ELSE [code |-> 200, body |-> <<GetResourceTree(c.items, req.root)>>, pools |-> 1]

\* getResourceTree: the status code, the body (the array of trees) and the
\* number of resource pools built.  Get finds the root when it is one of the
\* listed resources or the unlisted one.
GetResourceTreeHandler(c, req) ==
  IF ToLower(req.type) \notin ResourceMappings
  THEN [code |-> 400, body |-> << >>, pools |-> 0]
  ELSE IF req.namespace = ""
  THEN [code |-> 400, body |-> << >>, pools |-> 0]
  ELSE IF /\ \A i \in 1..Len(c.items) : c.items[i].uid # req.root
          /\ req.root # UnlistedUID
  THEN [code |-> 404, body |-> << >>, pools |-> 0]
  ELSE [code |-> 200, body |-> <<GetResourceTree(c.items, req.root)>>, pools |-> 1]

\* ------------------------------------------------------------ the clusters
\* the lists of at most k distinct elements of S
RECURSIVE DistinctSeqs(_, _)
DistinctSeqs(S, k) ==
  IF k = 0 THEN {<< >>}
  ELSE DistinctSeqs(S, k - 1)
         \cup {Append(q, x) : <<q, x>> \in
                 {<<q, x>> \in DistinctSeqs(S, k - 1) \X S :
                    Len(q) = k - 1 /\ \A j \in 1..Len(q) : q[j] # x}}

\* n listed resources, each owned by at most MaxOwners of the resources,
\* itself and the unlisted one included
ClustersOf(n) ==
  {[items |-> [i \in 1..n |-> ResourceOf(i, o[i])]] :
     o \in [1..n -> DistinctSeqs((1..n) \cup {UnlistedUID}, MaxOwners)]}

Clusters == UNION {ClustersOf(n) : n \in 0..MaxResources}

Requests ==
  [type : TypeNames, namespace : {"", "default"},
   root : (1..MaxResources) \cup {UnlistedUID, MissingName}]

TreeInit ==
  /\ cluster \in Clusters
  /\ request = NoRequest
  /\ response = NoResponse
  /\ engine = CreateLayoutEngine("hierarchical", CHOOSE c \in Configs : TRUE)
  /\ used = FALSE
  /\ input = NoInput
  /\ result = NoResult
  /\ prevNodes = NoNode
  /\ outer = NoCall
  /\ inner = NoInner

\* one request GET /api/resources/:type/:root/tree?namespace=
ServeTree ==
  /\ \E req \in Requests :
       /\ request' = req
       /\ response' = GetResourceTreeHandler(cluster, req)
  /\ UNCHANGED cluster
  /\ UNCHANGED layoutVars

TreeNext == ServeTree

TreeSpec == TreeInit /\ [][TreeNext]_vars

\* ====================================================================
\* Properties
\* ====================================================================

RT == "ReingoldTilfordLayout"
ET == "EnhancedTreeLayout"
HL == "HierarchicalLayout"

NodeIds(inp) == {inp.nodes[i] : i \in 1..Len(inp.nodes)}
EdgeSet(inp) == {inp.edges[i] : i \in 1..Len(inp.edges)}
InDegreeOf(inp, v) == Cardinality({i \in 1..Len(inp.edges) : inp.edges[i][2] = v})

RECURSIVE ReachFrom(_, _)
ReachFrom(inp, S) ==
  LET T == S \cup {e[2] : e \in {f \in EdgeSet(inp) : f[1] \in S}}
  IN IF T = S THEN S ELSE ReachFrom(inp, T)

\* one rooted tree: a single node without incoming edge, every other node
\* with exactly one incoming edge and reachable from it
TreeRoots(inp) == {v \in NodeIds(inp) : InDegreeOf(inp, v) = 0}

IsRootedTree(inp) ==
  /\ Len(inp.nodes) >= 1
  /\ \A i, j \in 1..Len(inp.nodes) : i # j => inp.nodes[i] # inp.nodes[j]
  /\ \A e \in EdgeSet(inp) : e[1] \in NodeIds(inp) /\ e[2] \in NodeIds(inp)
  /\ Cardinality(TreeRoots(inp)) = 1
  /\ \A v \in NodeIds(inp) \ TreeRoots(inp) : InDegreeOf(inp, v) = 1
  /\ ReachFrom(inp, TreeRoots(inp)) = NodeIds(inp)

Dangling(inp, e) == e[1] \notin NodeIds(inp) \/ e[2] \notin NodeIds(inp)

\* the sequence s without its element number k
RemoveAt(s, k) == [i \in 1..(Len(s) - 1) |-> IF i < k THEN s[i] ELSE s[i + 1]]

Abs(a) == IF a < 0 THEN 0 - a ELSE a

\* the coordinate of a result node on the primary axis
Primary(cfg, n) == IF cfg.direction = "LR" THEN n.y ELSE n.x

Separation(cfg) == cfg.nodeWidth + cfg.horizontalSpacing

\* the result node of id v
ResultNode(res, v) == res.nodes[CHOOSE i \in 1..Len(res.nodes) : res.nodes[i].id = v]

\* the result a fresh engine of the same name and the config cfg returns
FreshResult(algorithm, cfg, inp) ==
  EngineLayout(CreateLayoutEngine(algorithm, cfg), inp.nodes, inp.edges).result

LevelSeparated(cfg, res) ==
  \A i, j \in 1..Len(res.nodes) :
    (i # j /\ res.nodes[i].level = res.nodes[j].level)
      => Abs(Primary(cfg, res.nodes[i]) - Primary(cfg, res.nodes[j])) >= Separation(cfg)

\* C1: Reingold-Tilford, on a rooted tree and a config with
\* nodeWidth + horizontalSpacing > 0: any two distinct result nodes of one
\* level are at least nodeWidth + horizontalSpacing apart on the primary axis.
C1_RTLevelSeparation ==
  (used /\ engine.strategy = RT /\ IsRootedTree(input) /\ Separation(engine.config) > 0)
    => (~result.err /\ LevelSeparated(engine.config, result))

\* C2: Enhanced, on a rooted tree and a config with
\* nodeWidth + horizontalSpacing > 0: any two distinct result nodes of one
\* level are at least nodeWidth + horizontalSpacing apart on the primary axis.
C2_ETLevelSeparation ==
  (used /\ engine.strategy = ET /\ IsRootedTree(input) /\ Separation(engine.config) > 0)
    => (~result.err /\ LevelSeparated(engine.config, result))

\* an Enhanced layout of a tree in which two nodes of different parents
\* share a level, under a config with horizontalSpacing > 0
C2_Witness ==
  /\ used /\ engine.strategy = ET /\ IsRootedTree(input) /\ ~result.err
  /\ engine.config.horizontalSpacing > 0
  /\ \E e, f \in EdgeSet(input) :
       /\ e[1] # f[1]
       /\ ResultNode(result, e[2]).level = ResultNode(result, f[2]).level

\* C3: every strategy, every non-empty input with pairwise distinct ids:
\* layout returns a node list of the length of the input node list, in the
\* same order, each input id once.
C3_NodeListPreserved ==
  (used /\ Len(input.nodes) > 0)
    => /\ ~result.err
       /\ Len(result.nodes) = Len(input.nodes)
       /\ \A i \in 1..Len(input.nodes) : result.nodes[i].id = input.nodes[i]

\* C4: every strategy, on a rooted tree: the root has level 0 and
\* isRoot = TRUE, and level(c) = level(p) + 1 for every input edge (p, c).
C4_TreeLevels ==
  (used /\ IsRootedTree(input))
    => /\ ~result.err
       /\ \A r \in TreeRoots(input) :
            ResultNode(result, r).level = 0 /\ ResultNode(result, r).isRoot
       /\ \A e \in EdgeSet(input) :
            ResultNode(result, e[2]).level = ResultNode(result, e[1]).level + 1

\* a Hierarchical layout of a tree that has a grandchild of the root
C4_Witness ==
  /\ used /\ engine.strategy = HL /\ IsRootedTree(input) /\ ~result.err
  /\ \E i \in 1..Len(result.nodes) : result.nodes[i].level = 2

\* C5: the result of a layout call is the result a fresh engine returns for
\* the same nodes, edges and config, whatever the engine has laid out before.
C5_Pure ==
  used => result = FreshResult(engine.algorithm, engine.config, input)

\* a Reingold-Tilford engine that lays out a non-empty input after it has
\* laid out a larger one
C5_Witness ==
  /\ used /\ engine.strategy = RT /\ ~result.err
  /\ Len(input.nodes) >= 1 /\ prevNodes > Len(input.nodes)

FlipDirection(cfg) ==
  [cfg EXCEPT !.direction = IF cfg.direction = "LR" THEN "TB" ELSE "LR"]

\* C6: the run in the other direction throws exactly when this one does and
\* gives each node the coordinates of this run with x and y exchanged, the
\* same level and the same isRoot.
C6_DirectionSymmetry ==
  used =>
    LET other == FreshResult(engine.algorithm, FlipDirection(engine.config), input)
    IN /\ other.err = result.err
       /\ Len(other.nodes) = Len(result.nodes)
       /\ \A i \in 1..Len(result.nodes) :
            /\ other.nodes[i].x = result.nodes[i].y
            /\ other.nodes[i].y = result.nodes[i].x
            /\ other.nodes[i].level = result.nodes[i].level
            /\ other.nodes[i].isRoot = result.nodes[i].isRoot

\* an Enhanced left-to-right layout with a node off both axes
C6_Witness ==
  /\ used /\ engine.strategy = ET /\ engine.config.direction = "LR" /\ ~result.err
  /\ \E i \in 1..Len(result.nodes) :
       result.nodes[i].x # 0 /\ result.nodes[i].y # 0
         /\ result.nodes[i].x # result.nodes[i].y

\* C7: for every strategy name, layout on an empty node list returns
\* {nodes: [], edges: []} and raises no error.
C7_EmptyInput ==
  (used /\ Len(input.nodes) = 0)
    => result = [err |-> FALSE, nodes |-> << >>, edges |-> << >>]

\* C8: Hierarchical, on a non-empty input with an edge whose source or target
\* is no node: no error, and the result is that of the input without the edge.
C8_HLDanglingDropped ==
  (used /\ engine.strategy = HL /\ Len(input.nodes) > 0)
    => \A k \in 1..Len(input.edges) :
         Dangling(input, input.edges[k])
           => /\ ~result.err
              /\ result.nodes =
                   HLLayout(engine.config, input.nodes, RemoveAt(input.edges, k)).nodes

\* C9: Reingold-Tilford and Enhanced: an edge whose source or target is no
\* node changes nothing: the call throws exactly when the call without that
\* edge throws, and returns the same levels, isRoot flags and positions.
C9_DanglingEdgeIgnored ==
  (used /\ engine.strategy \in {RT, ET})
    => \A k \in 1..Len(input.edges) :
         Dangling(input, input.edges[k])
           => LET base == FreshResult(engine.algorithm, engine.config,
                            [nodes |-> input.nodes,
                             edges |-> RemoveAt(input.edges, k)])
              IN base.err = result.err /\ base.nodes = result.nodes

\* a Reingold-Tilford layout of an input with a dangling edge and an edge
\* between two nodes, which returns
C9_Witness ==
  /\ used /\ engine.strategy = RT /\ ~result.err
  /\ \E k \in 1..Len(input.edges) : Dangling(input, input.edges[k])
  /\ \E i \in 1..Len(result.nodes) : result.nodes[i].level = 1

\* C10: every strategy, direction and config: a single node without edges
\* yields one node with level 0, isRoot = TRUE and position (0, 0).
C10_SingleNode ==
  (used /\ Len(input.nodes) = 1 /\ Len(input.edges) = 0)
    => result.nodes = <<[id |-> input.nodes[1], x |-> 0, y |-> 0,
                         level |-> 0, isRoot |-> TRUE]>>

\* the children of p in the order of the input edges
KidsOf(inp, p) ==
  LET es == SelectSeq(inp.edges, LAMBDA e : e[1] = p)
  IN [i \in 1..Len(es) |-> es[i][2]]

\* C11: Reingold-Tilford, on a rooted tree: the primary coordinate of every
\* node with children is the midpoint of the primary coordinates of its
\* first and its last child.
C11_RTCentered ==
  (used /\ engine.strategy = RT /\ IsRootedTree(input))
    => /\ ~result.err
       /\ \A p \in NodeIds(input) :
            Len(KidsOf(input, p)) > 0
              => 2 * Primary(engine.config, ResultNode(result, p))
                   = Primary(engine.config, ResultNode(result, KidsOf(input, p)[1]))
                     + Primary(engine.config,
                               ResultNode(result,
                                          KidsOf(input, p)[Len(KidsOf(input, p))]))

\* a Reingold-Tilford layout of a tree in which a node with two children has
\* a left sibling
C11_Witness ==
  /\ used /\ engine.strategy = RT /\ IsRootedTree(input) /\ ~result.err
  /\ \E p \in NodeIds(input) :
       /\ Len(KidsOf(input, p)) >= 2
       /\ \E q \in NodeIds(input) :
            /\ Len(KidsOf(input, q)) >= 2
            /\ KidsOf(input, q)[1] # p
            /\ \E i \in 2..Len(KidsOf(input, q)) : KidsOf(input, q)[i] = p

IncomingOf(inp, v) ==
  Cardinality({i \in 1..Len(inp.edges) :
                 inp.edges[i][2] = v /\ inp.edges[i][1] \in NodeIds(inp)})

\* the first node in input order without incoming edge, or the first input
\* node when every node has one
ExpectedRoot(inp) ==
  IF \E i \in 1..Len(inp.nodes) : IncomingOf(inp, inp.nodes[i]) = 0
  THEN inp.nodes[CHOOSE i \in 1..Len(inp.nodes) :
                   /\ IncomingOf(inp, inp.nodes[i]) = 0
                   /\ \A j \in 1..(i - 1) : IncomingOf(inp, inp.nodes[j]) # 0]
  ELSE inp.nodes[1]

\* C13: every strategy, every non-empty input for which layout returns:
\* exactly one result node has isRoot = TRUE; it has level 0 and is the first
\* input node without incoming edge, or the first input node when there is
\* none.
C13_OneRoot ==
  (used /\ Len(input.nodes) > 0 /\ ~result.err)
    => /\ \A i \in 1..Len(result.nodes) :
            result.nodes[i].isRoot <=> result.nodes[i].id = ExpectedRoot(input)
       /\ \A i \in 1..Len(result.nodes) :
            result.nodes[i].isRoot => result.nodes[i].level = 0

\* the nodes the edges lead to from the selected root
Reachable(inp) == ReachFrom(inp, {ExpectedRoot(inp)})

\* C14: every strategy, either direction, every non-empty input for which
\* layout returns: a node that the edges do not lead to from the selected
\* root has level 0 and the position (0, 0) in the result.
C14_UnreachableAtOrigin ==
  (used /\ Len(input.nodes) > 0 /\ ~result.err)
    => \A v \in NodeIds(input) \ Reachable(input) :
         /\ ResultNode(result, v).level = 0
         /\ ResultNode(result, v).x = 0
         /\ ResultNode(result, v).y = 0

\* C15: every strategy, every non-empty input without dangling edge in which
\* every node has an incoming edge: layout returns without error, with the
\* first input node at level 0.
C15_NoRootTerminates ==
  (/\ used /\ Len(input.nodes) > 0
   /\ \A e \in EdgeSet(input) : ~Dangling(input, e)
   /\ \A v \in NodeIds(input) : IncomingOf(input, v) > 0)
    => /\ ~result.err
       /\ ResultNode(result, input.nodes[1]).level = 0

\* C17: the engine made for the name 'reingold-tilford' is a Reingold-Tilford
\* one, for 'enhanced-tree' an Enhanced one, and for 'hierarchical' and for
\* every other name a Hierarchical one.
C17_Factory ==
  /\ engine.algorithm = "reingold-tilford" => engine.strategy = RT
  /\ engine.algorithm = "enhanced-tree" => engine.strategy = ET
  /\ engine.algorithm \notin {"reingold-tilford", "enhanced-tree"}
       => engine.strategy = HL

\* an engine made for a name that is none of the three has laid out a
\* non-empty input as the Hierarchical strategy does
C17_Witness ==
  /\ engine.algorithm \notin {"reingold-tilford", "enhanced-tree", "hierarchical"}
  /\ used /\ ~result.err /\ Len(input.nodes) >= 2
  /\ result = HLLayout(engine.config, input.nodes, input.edges)

\* C16: when a second call of layout on the same engine starts and ends
\* while a first one is under way, each of the two calls returns what a
\* fresh engine of the same name and config returns for its arguments.
C16_OverlapIsolated ==
  (outer.pc = "done" /\ inner.ran)
    => /\ outer.result = FreshResult(engine.algorithm, engine.config, outer.input)
       /\ inner.result = FreshResult(engine.algorithm, engine.config, inner.input)

\* a request that is answered with a tree
Served == response.code = 200 /\ Len(response.body) = 1

\* no UID twice on the way down from node, below the UIDs of above, but for
\* a last node without children
RECURSIVE PathsCut(_, _)
PathsCut(node, above) ==
  IF node.uid \in above THEN Len(node.children) = 0
  ELSE \A i \in 1..Len(node.children) :
         PathsCut(node.children[i], above \cup {node.uid})

\* whether a node of the tree has the UID of a node above it
RECURSIVE HasCut(_, _)
HasCut(node, above) ==
  \/ node.uid \in above
  \/ \E i \in 1..Len(node.children) : HasCut(node.children[i], above \cup {node.uid})

\* C18: GetResourceTree returns for every pool, cyclic ones included, and in
\* the tree a resource met again on the path from the root is a node without
\* children: no UID occurs twice on a path but as such a last node.
C18_CycleCut ==
  (request # NoRequest
     /\ ToLower(request.type) \in ResourceMappings
     /\ request.namespace = "default"
     /\ request.root \in {cluster.items[i].uid : i \in 1..Len(cluster.items)}
                          \cup {UnlistedUID})
    => /\ Served
       /\ PathsCut(response.body[1], {})

\* a tree with a resource that is met again below itself
C18_Witness ==
  /\ Served
  /\ HasCut(response.body[1], {})
  /\ CountNodes(response.body[1]) >= 4

\* the nodes of a tree
RECURSIVE NodesOf(_)
NodesOf(node) ==
  {node} \cup UNION {NodesOf(node.children[i]) : i \in 1..Len(node.children)}

\* the UIDs of the listed resources with an ownerReference to uid, in the
\* order of the list
OwnedBy(c, uid) ==
  LET owned == SelectSeq(c.items,
                 LAMBDA r : \E j \in 1..Len(r.owners) : r.owners[j] = uid)
  IN [i \in 1..Len(owned) |-> owned[i].uid]

\* the UIDs owned by one of S, directly or through others
RECURSIVE OwnedFrom(_, _)
OwnedFrom(c, S) ==
  LET T == S \cup {c.items[i].uid : i \in
                     {k \in 1..Len(c.items) :
                        \E j \in 1..Len(c.items[k].owners) : c.items[k].owners[j] \in S}}
  IN IF T = S THEN S ELSE OwnedFrom(c, T)

\* what uid owns, directly or through others
Descendants(c, uid) ==
  OwnedFrom(c, {OwnedBy(c, uid)[i] : i \in 1..Len(OwnedBy(c, uid))})

Acyclic(c) == \A i \in 1..Len(c.items) : c.items[i].uid \notin Descendants(c, c.items[i].uid)

\* C19: with acyclic ownerReferences, the children of every node of the tree
\* are the listed resources with an ownerReference to the node's UID, in the
\* order of the list; every resource the root owns, directly or through
\* others, is in the tree; and when no resource has two owners, CountNodes
\* is 1 plus the number of these resources.
C19_ChildrenAreOwned ==
  (Served /\ Acyclic(cluster))
    => /\ \A n \in NodesOf(response.body[1]) :
            [i \in 1..Len(n.children) |-> n.children[i].uid] = OwnedBy(cluster, n.uid)
       /\ {n.uid : n \in NodesOf(response.body[1])}
            = {request.root} \cup Descendants(cluster, request.root)
       /\ (\A i \in 1..Len(cluster.items) : Len(cluster.items[i].owners) <= 1)
            => CountNodes(response.body[1])
                 = 1 + Cardinality(Descendants(cluster, request.root))

\* a tree of three levels in which a resource with two owners occurs
C19_Witness ==
  /\ Served /\ Acyclic(cluster)
  /\ \E i \in 1..Len(cluster.items) :
       /\ Len(cluster.items[i].owners) = 2
       /\ cluster.items[i].owners[2] = request.root
       /\ cluster.items[i].uid \in
            {n.uid : n \in NodesOf(response.body[1])}
  /\ \E n \in NodesOf(response.body[1]) :
       n.uid # request.root /\ Len(n.children) > 0

\* C20: a request with an unknown type is answered 400, one with a known
\* type and no namespace 400, one whose root cannot be fetched 404, each
\* without a pool or a tree built; every other request is answered 200 with
\* an array of one tree, whose root is the resource asked for.
C20_HandlerCodes ==
  request # NoRequest =>
    IF request.type \notin {"deployment", "Deployment"}
    THEN response.code = 400 /\ response.body = << >> /\ response.pools = 0
    ELSE IF request.namespace = ""
    THEN response.code = 400 /\ response.body = << >> /\ response.pools = 0
    ELSE IF request.root \notin {cluster.items[i].uid : i \in 1..Len(cluster.items)}
                                  \cup {UnlistedUID}
    THEN response.code = 404 /\ response.body = << >> /\ response.pools = 0
    ELSE /\ response.code = 200
         /\ Len(response.body) = 1
         /\ response.body[1].uid = request.root

\* a request of a known type without namespace, for a root that exists
C20_Witness ==
  /\ request # NoRequest
  /\ request.type = "Deployment"
  /\ request.namespace = ""
  /\ request.root \in {cluster.items[i].uid : i \in 1..Len(cluster.items)}
  /\ response.code = 400

\* C21: Reingold-Tilford, on a rooted tree and a config with
\* nodeWidth + horizontalSpacing > 0: for a node v with children and an
\* earlier sibling u, every node below or at v lies at least
\* nodeWidth + horizontalSpacing to the right of every node of the same level
\* below or at u, as apportion(v) is to leave them.
C21_ApportionSeparates ==
  (used /\ engine.strategy = RT /\ IsRootedTree(input) /\ Separation(engine.config) > 0)
    => /\ ~result.err
       /\ \A p \in NodeIds(input) :
            \A i, j \in 1..Len(KidsOf(input, p)) :
              (i < j /\ Len(KidsOf(input, KidsOf(input, p)[j])) > 0)
                => \A a \in ReachFrom(input, {KidsOf(input, p)[j]}),
                      b \in ReachFrom(input, {KidsOf(input, p)[i]}) :
                     ResultNode(result, a).level = ResultNode(result, b).level
                       => Primary(engine.config, ResultNode(result, a))
                            - Primary(engine.config, ResultNode(result, b))
                            >= Separation(engine.config)

\* the elements of a sequence
Range(q) == {q[i] : i \in 1..Len(q)}

\* q followed by the elements of kids that are neither in seen nor in q yet
RECURSIVE AppendNew(_, _, _, _)
AppendNew(q, kids, i, seen) ==
  IF i > Len(kids) THEN q
  ELSE AppendNew(IF kids[i] \in seen \/ kids[i] \in Range(q) THEN q
                 ELSE Append(q, kids[i]),
                 kids, i + 1, seen)

\* the nodes one edge below the nodes of cur, in the order in which a
\* breadth-first search meets them first
RECURSIVE BelowLevel(_, _, _, _, _)
BelowLevel(inp, cur, i, seen, q) ==
  IF i > Len(cur) THEN q
  ELSE BelowLevel(inp, cur, i + 1, seen, AppendNew(q, KidsOf(inp, cur[i]), 1, seen))

\* the levels of a breadth-first search from the nodes of cur, each in the
\* order of the search
RECURSIVE BfsLevels(_, _, _)
BfsLevels(inp, cur, seen) ==
  IF Len(cur) = 0 THEN << >>
  ELSE <<cur>> \o BfsLevels(inp, BelowLevel(inp, cur, 1, seen, << >>),
                            seen \cup Range(BelowLevel(inp, cur, 1, seen, << >>)))

LevelsFromRoot(inp) == BfsLevels(inp, <<ExpectedRoot(inp)>>, {ExpectedRoot(inp)})

\* the coordinate of a result node across the levels is Primary; the one
\* along the levels:
DepthCoord(cfg, n) == IF cfg.direction = "LR" THEN n.x ELSE n.y

NoDangling(inp) == \A e \in EdgeSet(inp) : ~Dangling(inp, e)

\* C22: Hierarchical, on a non-empty input without dangling edge: the node
\* of rank i (from 0) among the levelCount nodes that the breadth-first
\* search reaches at its level has the cross-axis coordinate
\* (i - (levelCount - 1) / 2) * (nodeWidth + horizontalSpacing).
C22_HLCrossAxis ==
  (used /\ engine.strategy = HL /\ Len(input.nodes) > 0 /\ NoDangling(input))
    => /\ ~result.err
       /\ \A l \in 1..Len(LevelsFromRoot(input)) :
            \A i \in 1..Len(LevelsFromRoot(input)[l]) :
              2 * Primary(engine.config,
                          ResultNode(result, LevelsFromRoot(input)[l][i]))
                = (2 * (i - 1) - (Len(LevelsFromRoot(input)[l]) - 1))
                    * Separation(engine.config)

\* subtreeWidth: 1 for a leaf, the sum over the children otherwise
RECURSIVE WidthOf(_, _)
RECURSIVE WidthSum(_, _, _)
WidthOf(inp, v) ==
  IF Len(KidsOf(inp, v)) = 0 THEN 1 ELSE WidthSum(inp, KidsOf(inp, v), 1)

WidthSum(inp, kids, i) ==
  IF i > Len(kids) THEN 0 ELSE WidthOf(inp, kids[i]) + WidthSum(inp, kids, i + 1)

\* whether q lists the children of p by non-increasing subtreeWidth, children
\* of equal subtreeWidth in the order of the input edges
IsSortedKids(inp, p, q) ==
  /\ Len(q) = Len(KidsOf(inp, p))
  /\ Range(q) = Range(KidsOf(inp, p))
  /\ \A i, j \in 1..Len(q) :
       i < j => \/ WidthOf(inp, q[i]) > WidthOf(inp, q[j])
                \/ /\ WidthOf(inp, q[i]) = WidthOf(inp, q[j])
                   /\ IndexOf(KidsOf(inp, p), q[i]) < IndexOf(KidsOf(inp, p), q[j])

SortedKids(inp, p) ==
  CHOOSE q \in [1..Len(KidsOf(inp, p)) -> Range(KidsOf(inp, p))] :
    IsSortedKids(inp, p, q)

\* C23: Enhanced, on a rooted tree: the cross-axis coordinate of every node
\* with children is the midpoint of the cross-axis coordinates of its first
\* and its last child in the sorted order.
C23_ETCentered ==
  (used /\ engine.strategy = ET /\ IsRootedTree(input))
    => /\ ~result.err
       /\ \A p \in NodeIds(input) :
            Len(KidsOf(input, p)) > 0
              => 2 * Primary(engine.config, ResultNode(result, p))
                   = Primary(engine.config, ResultNode(result, SortedKids(input, p)[1]))
                     + Primary(engine.config,
                               ResultNode(result,
                                          SortedKids(input, p)[Len(KidsOf(input, p))]))

C25_ETCenteredAtZero ==
  (used /\ engine.strategy = ET /\ Len(input.nodes) > 0 /\ ~result.err)
    => \E i, j \in 1..Len(result.nodes) :
         /\ \A k \in 1..Len(result.nodes) :
              /\ Primary(engine.config, result.nodes[i])
                   <= Primary(engine.config, result.nodes[k])
              /\ Primary(engine.config, result.nodes[k])
                   <= Primary(engine.config, result.nodes[j])
         /\ Primary(engine.config, result.nodes[i])
              = 0 - Primary(engine.config, result.nodes[j])

LevelSeparation(cfg) == cfg.nodeHeight + cfg.verticalSpacing

\* C26: every strategy, either direction, every non-empty input for which
\* layout returns: a node that the edges lead to from the selected root has
\* the depth coordinate level * (nodeHeight + verticalSpacing); on a rooted
\* tree the depth coordinate of a child is that of its parent plus
\* nodeHeight + verticalSpacing.
C26_DepthByLevel ==
  (used /\ Len(input.nodes) > 0 /\ ~result.err)
    => /\ \A v \in Reachable(input) \cap NodeIds(input) :
            DepthCoord(engine.config, ResultNode(result, v))
              = ResultNode(result, v).level * LevelSeparation(engine.config)
       /\ IsRootedTree(input)
            => \A e \in EdgeSet(input) :
                 DepthCoord(engine.config, ResultNode(result, e[2]))
                   = DepthCoord(engine.config, ResultNode(result, e[1]))
                       + LevelSeparation(engine.config)

\* a left-to-right Reingold-Tilford layout of a rooted tree three levels deep
C26_Witness ==
  /\ used /\ engine.strategy = RT /\ engine.config.direction = "LR"
  /\ IsRootedTree(input) /\ ~result.err
  /\ \E i \in 1..Len(result.nodes) :
       /\ result.nodes[i].level = 2
       /\ result.nodes[i].x = 2 * LevelSeparation(engine.config)

\* the tree after Pass 1 of a fresh Enhanced layout: buildTreeStructure, then
\* calculateSubtreePositions from the root at 0
ETAfterPassOne(b, cfg) == ETCalculateSubtreePositions(b.st, cfg, b.root, 0).st

ETPassOne(cfg, inp) ==
  ETAfterPassOne(ETBuildTreeStructure(EmptyScratch, inp.nodes, inp.edges), cfg)

\* C27: Enhanced, on a rooted tree: after Pass 1 any two distinct nodes of
\* one level are at least nodeWidth + horizontalSpacing apart, and
\* resolveConflicts leaves the x of every node as Pass 1 set it.
C27_ETNoConflict ==
  (used /\ engine.strategy = ET /\ IsRootedTree(input))
    => /\ ~ETPassOne(engine.config, input).err
       /\ \A v, w \in NodeIds(input) :
            (v # w /\ ETPassOne(engine.config, input).val[v].level
                        = ETPassOne(engine.config, input).val[w].level)
              => Abs(ETPassOne(engine.config, input).val[v].x
                       - ETPassOne(engine.config, input).val[w].x)
                   >= ETGetNodeSeparation(engine.config)
       /\ \A v \in NodeIds(input) :
            ETResolveConflicts(ETPassOne(engine.config, input), engine.config).val[v].x
              = ETPassOne(engine.config, input).val[v].x

\* an Enhanced layout of a rooted tree with two nodes of one level under
\* different parents, so that the sweep compares cousins
C27_Witness ==
  /\ used /\ engine.strategy = ET /\ IsRootedTree(input) /\ ~result.err
  /\ Separation(engine.config) > 0
  /\ \E e, f \in EdgeSet(input) :
       /\ e[1] # f[1]
       /\ ResultNode(result, e[2]).level = ResultNode(result, f[2]).level
       /\ ResultNode(result, e[2]).level = 2

\* twice the cross-axis coordinate of the node of index idx among levelCount
\* nodes of a level, from the left end -totalWidth / 2
TwiceCrossAt(cfg, levelCount, idx) ==
  2 * idx * Separation(cfg)
    - (levelCount * cfg.nodeWidth + (levelCount - 1) * cfg.horizontalSpacing)

\* C28: Hierarchical, on a non-empty input without dangling edge and a
\* config with nodeWidth + horizontalSpacing > 0: every node at distance l
\* from the selected root has level l and sits at an index in
\* 0..levelCount-1 of its level, and any two distinct nodes of one level have
\* primary coordinates that differ by a non-zero multiple of
\* nodeWidth + horizontalSpacing.
C28_HLDistinctSlots ==
  (used /\ engine.strategy = HL /\ Len(input.nodes) > 0 /\ NoDangling(input)
     /\ Separation(engine.config) > 0)
    => /\ ~result.err
       /\ \A l \in 1..Len(LevelsFromRoot(input)) :
            /\ \A i \in 1..Len(LevelsFromRoot(input)[l]) :
                 /\ ResultNode(result, LevelsFromRoot(input)[l][i]).level = l - 1
                 /\ \E idx \in 0..(Len(LevelsFromRoot(input)[l]) - 1) :
                      2 * Primary(engine.config,
                                  ResultNode(result, LevelsFromRoot(input)[l][i]))
                        = TwiceCrossAt(engine.config, Len(LevelsFromRoot(input)[l]), idx)
            /\ \A i, j \in 1..Len(LevelsFromRoot(input)[l]) :
                 i # j =>
                   \E k \in 1..Len(LevelsFromRoot(input)[l]) :
                     Abs(Primary(engine.config,
                                 ResultNode(result, LevelsFromRoot(input)[l][i]))
                           - Primary(engine.config,
                                     ResultNode(result, LevelsFromRoot(input)[l][j])))
                       = k * Separation(engine.config)

\* a Hierarchical layout with two nodes of level 2 under different parents,
\* one slot apart
C28_Witness ==
  /\ used /\ engine.strategy = HL /\ NoDangling(input) /\ ~result.err
  /\ \E e, f \in EdgeSet(input) :
       /\ e[1] # f[1] /\ e[2] # f[2]
       /\ ResultNode(result, e[2]).level = 2
       /\ ResultNode(result, f[2]).level = 2
       /\ Abs(Primary(engine.config, ResultNode(result, e[2]))
                - Primary(engine.config, ResultNode(result, f[2])))
            = Separation(engine.config)

\* the result nodes of a and b carry the same ids, levels and isRoot flags
SameTree(a, b) ==
  /\ ~a.err /\ ~b.err
  /\ Len(a.nodes) = Len(b.nodes)
  /\ \A i \in 1..Len(a.nodes) :
       /\ a.nodes[i].id = b.nodes[i].id
       /\ a.nodes[i].level = b.nodes[i].level
       /\ a.nodes[i].isRoot = b.nodes[i].isRoot

\* C29: on a rooted tree the result of the engine in use and the results of
\* fresh Reingold-Tilford, Enhanced and Hierarchical engines give every node
\* the same level and the same isRoot flag.
C29_StrategiesAgree ==
  (used /\ IsRootedTree(input))
    => /\ SameTree(result, FreshResult("reingold-tilford", engine.config, input))
       /\ SameTree(result, FreshResult("enhanced-tree", engine.config, input))
       /\ SameTree(result, FreshResult("hierarchical", engine.config, input))

\* a Hierarchical layout of a rooted tree three levels deep whose nodes are
\* not listed in the order of the levels
C29_Witness ==
  /\ used /\ engine.strategy = HL /\ IsRootedTree(input) /\ ~result.err
  /\ \E i, j \in 1..Len(result.nodes) :
       /\ i < j
       /\ result.nodes[i].level = 2
       /\ result.nodes[j].level = 1
       /\ ~result.nodes[i].isRoot
  /\ \E i \in 1..Len(result.nodes) : result.nodes[i].isRoot

\* C30: every strategy, every non-empty input for which layout returns: the
\* edges of the result are the edges of the input, as many and in the same
\* order, an edge whose source or target is no node included.
C30_EdgesKept ==
  (used /\ Len(input.nodes) > 0 /\ ~result.err)
    => /\ Len(result.edges) = Len(input.edges)
       /\ \A i \in 1..Len(input.edges) :
            /\ result.edges[i][1] = input.edges[i][1]
            /\ result.edges[i][2] = input.edges[i][2]

\* a returned tree-strategy layout of an input with two different edges, one
\* of them with a source or target that is no node
C30_Witness ==
  /\ used /\ engine.strategy \in {RT, ET} /\ Len(input.nodes) > 0 /\ ~result.err
  /\ Len(result.edges) = 2
  /\ result.edges[1] # result.edges[2]
  /\ \E i \in 1..Len(result.edges) : Dangling(input, result.edges[i])

====
